---- MODULE Spec2Model ----
(***************************************************************************)
(* A model of the Notflix custom cast receiver (docs/receiver.js):         *)
(*   - manifestRewriter / langTag / encodeObject, run from the shaka       *)
(*     response filter on every master.m3u8 / main.m3u8 manifest;          *)
(*   - tracksUpdater / doTracksUpdate / decodeObject, run as the           *)
(*     MEDIA_STATUS message interceptor.                                   *)
(* Text is modelled as TLA+ strings, character by character, over          *)
(* printable ASCII plus \t, \r and \n.                                     *)
(***************************************************************************)
EXTENDS Integers, Sequences, FiniteSets, TLC

VARIABLES
  phase,      \* "ready", "loaded" (a manifest went through the response filter), "reported"
  doc,        \* the manifest of the response, as line descriptions
  request,    \* the response object as the response filter received it
  response,   \* the response object as the response filter left it
  call,       \* the manifestRewriter call of the response filter and its locals
  respIn,     \* the MEDIA_STATUS message as tracksUpdater received it
  resp,       \* the MEDIA_STATUS message as tracksUpdater returned it
  caught      \* whether the catch block of tracksUpdater ran

vars == <<phase, doc, request, response, call, respIn, resp, caught>>

(***************************************************************************)
(* JavaScript string primitives.                                           *)
(***************************************************************************)
\* s.charAt(i - 1): the empty string outside the string.
Ch(s, i) == IF i \in 1..Len(s) THEN SubSeq(s, i, i) ELSE ""

Chars(s) == {Ch(s, i) : i \in 1..Len(s)}

Min(S) == CHOOSE m \in S : \A n \in S : m <= n

startsWith(s, p) == Len(s) >= Len(p) /\ SubSeq(s, 1, Len(p)) = p

endsWith(s, p) == Len(s) >= Len(p) /\ SubSeq(s, Len(s) - Len(p) + 1, Len(s)) = p

\* s.slice(n)
slice(s, n) == SubSeq(s, n + 1, Len(s))

\* The printable ASCII characters in code order: 32 (space) to 95 (_), and
\* 97 (a) to 126 (~). Code 96 (the backtick) has no TLA+ string literal and is
\* outside the modelled character set.
AsciiLo == " !\"#$%&'()*+,-./0123456789:;<=>?@ABCDEFGHIJKLMNOPQRSTUVWXYZ[\\]^_"

AsciiHi == "abcdefghijklmnopqrstuvwxyz{|}~"

CodeOf == [c \in Chars(AsciiLo) \cup Chars(AsciiHi) \cup {"\t", "\n", "\r"} |->
             IF c = "\t" THEN 9
             ELSE IF c = "\n" THEN 10
             ELSE IF c = "\r" THEN 13
             ELSE IF c \in Chars(AsciiLo)
                  THEN 31 + CHOOSE i \in 1..Len(AsciiLo) : Ch(AsciiLo, i) = c
                  ELSE 96 + CHOOSE i \in 1..Len(AsciiHi) : Ch(AsciiHi, i) = c]

\* c.charCodeAt(0)
charCodeAt(c) == CodeOf[c]

\* String.fromCharCode(n), for the codes of the modelled character set.
fromCharCode(n) ==
  IF n = 9 THEN "\t"
  ELSE IF n = 10 THEN "\n"
  ELSE IF n = 13 THEN "\r"
  ELSE IF n <= 95 THEN Ch(AsciiLo, n - 31)
  ELSE Ch(AsciiHi, n - 96)

IsCode(n) == n \in {9, 10, 13} \cup (32..95) \cup (97..126)

\* The smallest of the indexes hits, or none when there is no hit.
MinOr(hits, none) == IF hits = {} THEN none ELSE Min(hits)

\* The smallest index i >= from with Ch(s, i) in S, or Len(s) + 1.
IndexIn(s, from, S) == MinOr({i \in from..Len(s) : Ch(s, i) \in S}, Len(s) + 1)

\* The smallest index i >= from with Ch(s, i) not in S, or Len(s) + 1.
IndexNotIn(s, from, S) == MinOr({i \in from..Len(s) : Ch(s, i) \notin S}, Len(s) + 1)

\* The position of the k-th of the separators at cuts: 0 for k = 0,
\* Len(s) + 1 past the last one.
Cut(s, cuts, k) ==
  IF k = 0 THEN 0
  ELSE IF k > Cardinality(cuts) THEN Len(s) + 1
  ELSE CHOOSE i \in cuts : Cardinality({j \in cuts : j < i}) = k - 1

\* The pieces of s between the separators at cuts.
splitAt(s, cuts) ==
  [k \in 1..(Cardinality(cuts) + 1) |-> SubSeq(s, Cut(s, cuts, k - 1) + 1, Cut(s, cuts, k) - 1)]

\* s.split(/,/) and friends: split on one separator character; '' gives [''].
split(s, sep) == splitAt(s, {i \in 1..Len(s) : Ch(s, i) = sep})

RECURSIVE Flatten(_, _, _, _)
\* parts[lo] \o ... \o parts[hi], by halves; empty when lo > hi.
Flatten(parts, lo, hi, empty) ==
  IF lo > hi THEN empty
  ELSE IF lo = hi THEN parts[lo]
  ELSE LET mid == (lo + hi) \div 2
       IN  Flatten(parts, lo, mid, empty) \o Flatten(parts, mid + 1, hi, empty)

\* The text made of piece(Ch(s, i)) for every character of s.
MapChars(s, piece(_)) == Flatten([i \in 1..Len(s) |-> piece(Ch(s, i))], 1, Len(s), "")

\* parts.join(sep)
join(parts, sep) ==
  Flatten([i \in 1..Len(parts) |-> IF i = 1 THEN parts[i] ELSE sep \o parts[i]],
          1, Len(parts), "")

\* The pieces of a split on \n, without the \r that ends a piece before a \n.
dropCR(raw) ==
  [k \in 1..Len(raw) |->
     IF k < Len(raw) /\ endsWith(raw[k], "\r")
     THEN SubSeq(raw[k], 1, Len(raw[k]) - 1)
     ELSE raw[k]]

\* A split that takes \n alone for the line break.
splitOnNewline(m3u8) == split(m3u8, "\n")

\* m3u8.split(/\r?\n/): split on \n, dropping one \r right before it.
splitLines(m3u8) == dropCR(split(m3u8, "\n"))

(***************************************************************************)
(* The globals encodeObject and decodeObject are built from (lines 288-304).*)
(* A "binary string" (every character code <= 255) is a sequence of bytes. *)
(* A decoded text is a sequence of code points, so that bytes with no      *)
(* modelled character (NUL, non-ASCII) are still told apart.               *)
(***************************************************************************)
HexDigits == "0123456789ABCDEF"

Hex2(n) == Ch(HexDigits, (n \div 16) + 1) \o Ch(HexDigits, (n % 16) + 1)

IsHex(c) == c \in Chars("0123456789ABCDEFabcdef")

HexVal(c) ==
  IF c \in Chars("0123456789") THEN charCodeAt(c) - 48
  ELSE IF c \in Chars("ABCDEF") THEN charCodeAt(c) - 55
  ELSE charCodeAt(c) - 87

AlphaNum == Chars("ABCDEFGHIJKLMNOPQRSTUVWXYZabcdefghijklmnopqrstuvwxyz0123456789")

\* Every character but A-Z a-z 0-9 - _ . ! ~ * ' ( ) becomes %XX (its UTF-8
\* bytes; one byte for the modelled characters, all below 128).
encodeURIComponent(s) ==
  MapChars(s, LAMBDA c : IF c \in AlphaNum \cup Chars("-_.!~*'()") THEN c
                         ELSE "%" \o Hex2(charCodeAt(c)))

\* Whether s holds a %XX escape at i, a %uXXXX escape at i. Escapes cannot
\* overlap: the characters after the % are hex digits or u, never a %.
IsEscape(s, i) == Ch(s, i) = "%" /\ IsHex(Ch(s, i + 1)) /\ IsHex(Ch(s, i + 2))

IsUEscape(s, i) ==
  /\ Ch(s, i) = "%"
  /\ Ch(s, i + 1) = "u"
  /\ \A d \in 2..5 : IsHex(Ch(s, i + d))

\* unescape(s): %uXXXX and %XX become the character of that code, every
\* other character stays; the result is given as its character codes (a
\* binary string when they are all below 256).
unescape(s) ==
  LET inU(i) == \E d \in 1..5 : IsUEscape(s, i - d)
      inX(i) == \E d \in 1..2 : IsEscape(s, i - d) /\ ~IsUEscape(s, i - d)
      piece(i) ==
        IF inU(i) \/ inX(i) THEN <<>>
        ELSE IF IsUEscape(s, i)
        THEN <<4096 * HexVal(Ch(s, i + 2)) + 256 * HexVal(Ch(s, i + 3))
               + 16 * HexVal(Ch(s, i + 4)) + HexVal(Ch(s, i + 5))>>
        ELSE IF IsEscape(s, i)
        THEN <<16 * HexVal(Ch(s, i + 1)) + HexVal(Ch(s, i + 2))>>
        ELSE <<charCodeAt(Ch(s, i))>>
  IN  Flatten([i \in 1..Len(s) |-> piece(i)], 1, Len(s), <<>>)

Base64Alphabet == "ABCDEFGHIJKLMNOPQRSTUVWXYZabcdefghijklmnopqrstuvwxyz0123456789+/"

B64(n) == Ch(Base64Alphabet, n + 1)

B64Val == [c \in Chars(Base64Alphabet) |->
             (CHOOSE i \in 1..64 : Ch(Base64Alphabet, i) = c) - 1]

\* window.btoa: three bytes to four characters, = padding on the last group.
btoa(m) ==
  LET group(g) ==
        LET a == m[3 * g - 2]
            n == Len(m) - (3 * g - 3)
            b == IF n >= 2 THEN m[3 * g - 1] ELSE 0
            c == IF n >= 3 THEN m[3 * g] ELSE 0
        IN  B64(a \div 4) \o B64((a % 4) * 16 + b \div 16)
            \o (IF n >= 2 THEN B64((b % 16) * 4 + c \div 64) ELSE "=")
            \o (IF n >= 3 THEN B64(c % 64) ELSE "=")
      groups == (Len(m) + 2) \div 3
  IN  Flatten([g \in 1..groups |-> group(g)], 1, groups, "")

StripChars(s, S) == MapChars(s, LAMBDA c : IF c \in S THEN "" ELSE c)

\* The bytes of base64 data without padding; a last group of two or three
\* characters gives one or two bytes, its spare bits are dropped.
atobBytes(d) ==
  LET group(g) ==
        LET n == Len(d) - (4 * g - 4)
            a == B64Val[Ch(d, 4 * g - 3)]
            b == B64Val[Ch(d, 4 * g - 2)]
            c == IF n >= 3 THEN B64Val[Ch(d, 4 * g - 1)] ELSE 0
            e == IF n >= 4 THEN B64Val[Ch(d, 4 * g)] ELSE 0
        IN  <<a * 4 + b \div 16>>
            \o (IF n >= 3 THEN <<(b % 16) * 16 + c \div 4>> ELSE <<>>)
            \o (IF n >= 4 THEN <<(c % 4) * 64 + e>> ELSE <<>>)
      groups == (Len(d) + 2) \div 4
  IN  Flatten([g \in 1..groups |-> group(g)], 1, groups, <<>>)

\* window.atob (the forgiving-base64 decode): ASCII whitespace is dropped,
\* then one or two trailing = of a length that is a multiple of 4; a length
\* of 1 mod 4 or a character outside the alphabet throws.
atobData(d) ==
  IF Len(d) % 4 = 1 \/ ~(Chars(d) \subseteq Chars(Base64Alphabet))
  THEN [thrown |-> TRUE, value |-> <<>>]
  ELSE [thrown |-> FALSE, value |-> atobBytes(d)]

atobStripped(t) ==
  atobData(IF Len(t) % 4 = 0 /\ endsWith(t, "==") THEN SubSeq(t, 1, Len(t) - 2)
           ELSE IF Len(t) % 4 = 0 /\ endsWith(t, "=") THEN SubSeq(t, 1, Len(t) - 1)
           ELSE t)

atob(str) == atobStripped(StripChars(str, {" ", "\t", "\n", "\r"}))

\* Every character of the binary string but A-Z a-z 0-9 @ * _ + - . /
\* becomes %XX.
escape(m) ==
  Flatten([i \in 1..Len(m) |->
             IF IsCode(m[i]) /\ fromCharCode(m[i]) \in AlphaNum \cup Chars("@*_+-./")
             THEN fromCharCode(m[i])
             ELSE "%" \o Hex2(m[i])], 1, Len(m), "")

\* The code units of a percent-encoded text: [b, esc], b the byte of a %XX
\* escape (esc) or the code of a character; thrown when a % is followed by
\* no two hex digits.
PercentUnits(s) ==
  LET inX(i) == \E d \in 1..2 : IsEscape(s, i - d)
      piece(i) ==
        IF inX(i) THEN <<>>
        ELSE IF IsEscape(s, i)
        THEN <<[b |-> 16 * HexVal(Ch(s, i + 1)) + HexVal(Ch(s, i + 2)), esc |-> TRUE]>>
        ELSE <<[b |-> charCodeAt(Ch(s, i)), esc |-> FALSE]>>
  IN  [thrown |-> \E i \in 1..Len(s) : Ch(s, i) = "%" /\ ~IsEscape(s, i),
       value |-> Flatten([i \in 1..Len(s) |-> piece(i)], 1, Len(s), <<>>)]

\* decodeURIComponent(s): the %XX escapes are UTF-8 bytes; a % with no two
\* hex digits, a stray continuation byte, a truncated, overlong or
\* surrogate sequence throws URIError. The result is a sequence of code
\* points.
decodeUTF8(pu, u) ==
  LET cont(p) == p \in 1..Len(u) /\ u[p].esc /\ u[p].b \in 128..191
      \* the length of the sequence the unit p starts; 0 when it starts none
      n(p) == IF ~u[p].esc \/ u[p].b < 128 THEN 1
              ELSE IF u[p].b \in 194..223 THEN 2
              ELSE IF u[p].b \in 224..239 THEN 3
              ELSE IF u[p].b \in 240..244 THEN 4
              ELSE 0
      k(p, j) == u[p + j].b
      strict(p) == /\ (u[p].b = 224 => k(p, 1) >= 160)
                   /\ (u[p].b = 237 => k(p, 1) <= 159)
                   /\ (u[p].b = 240 => k(p, 1) >= 144)
                   /\ (u[p].b = 244 => k(p, 1) <= 143)
      valid(p) == /\ n(p) >= 1
                  /\ \A j \in 1..(n(p) - 1) : cont(p + j)
                  /\ ~cont(p + n(p))
                  /\ (n(p) > 1 => strict(p))
      cp(p) == IF n(p) = 1 THEN u[p].b
               ELSE IF n(p) = 2 THEN (u[p].b - 192) * 64 + (k(p, 1) - 128)
               ELSE IF n(p) = 3
                    THEN (u[p].b - 224) * 4096 + (k(p, 1) - 128) * 64 + (k(p, 2) - 128)
               ELSE (u[p].b - 240) * 262144 + (k(p, 1) - 128) * 4096
                    + (k(p, 2) - 128) * 64 + (k(p, 3) - 128)
  IN  IF pu.thrown \/ cont(1) \/ \E p \in 1..Len(u) : ~cont(p) /\ ~valid(p)
      THEN [thrown |-> TRUE, value |-> <<>>]
      ELSE [thrown |-> FALSE,
            value |-> Flatten([p \in 1..Len(u) |-> IF cont(p) THEN <<>> ELSE <<cp(p)>>],
                              1, Len(u), <<>>)]

decodeUnits(pu) == decodeUTF8(pu, pu.value)

decodeURIComponent(s) == decodeUnits(PercentUnits(s))

(***************************************************************************)
(* JSON.stringify and JSON.parse, for what encodeObject writes and          *)
(* decodeObject reads. A JavaScript value is [k, s]: k its kind            *)
(* ("undefined", "null", "true", "false", "string"), s the text of a       *)
(* string; a parsed object is a list of [key, value] properties. Modelled  *)
(* JSON texts: an object whose property values are strings or literals, a  *)
(* string, or a literal (numbers, arrays and nested objects are outside    *)
(* the payloads the model decodes).                                        *)
(***************************************************************************)
Str(s) == [k |-> "string", s |-> s]

JUndefined == [k |-> "undefined", s |-> ""]

JNull == [k |-> "null", s |-> ""]

JTrue == [k |-> "true", s |-> ""]

JFalse == [k |-> "false", s |-> ""]

\* ToBoolean(v)
Truthy(v) == v.k = "true" \/ (v.k = "string" /\ v.s # "")

\* The body of a JSON string literal: " and \ and the control characters
\* are escaped.
QuoteJSONString(s) ==
  MapChars(s, LAMBDA c : IF c = "\"" THEN "\\\""
                         ELSE IF c = "\\" THEN "\\\\"
                         ELSE IF c = "\t" THEN "\\t"
                         ELSE IF c = "\n" THEN "\\n"
                         ELSE IF c = "\r" THEN "\\r"
                         ELSE c)

\* JSON.stringify(obj) of an object whose property values are strings.
JSONstringify(obj) ==
  "{" \o join([i \in 1..Len(obj) |->
                 "\"" \o QuoteJSONString(obj[i].key) \o "\":\""
                 \o QuoteJSONString(obj[i].value) \o "\""], ",")
      \o "}"

Codes(s) == [i \in 1..Len(s) |-> charCodeAt(Ch(s, i))]

\* The character of a code point; the payloads the model decodes hold no
\* code point without a modelled character inside a string literal.
CharOf(cp) == IF IsCode(cp) THEN fromCharCode(cp) ELSE "?"

JsonWs == {32, 9, 10, 13}

SkipWs(t, i) == MinOr({j \in i..Len(t) : t[j] \notin JsonWs}, Len(t) + 1)

IsHexCode(c) == c \in (48..57) \cup (65..70) \cup (97..102)

HexValCode(c) == IF c <= 57 THEN c - 48 ELSE IF c <= 70 THEN c - 55 ELSE c - 87

JsonFail == [ok |-> FALSE, s |-> "", next |-> 0]

RECURSIVE jsonString(_, _, _)
\* The string literal whose opening quote is before t[j]: [ok, s, next].
jsonString(t, j, acc) ==
  IF j > Len(t) THEN JsonFail
  ELSE IF t[j] = 34 THEN [ok |-> TRUE, s |-> acc, next |-> j + 1]
  ELSE IF t[j] < 32 THEN JsonFail
  ELSE IF t[j] # 92 THEN jsonString(t, j + 1, acc \o CharOf(t[j]))
  ELSE IF j + 1 > Len(t) THEN JsonFail
  ELSE LET e == t[j + 1]
       IN  IF e \in {34, 92, 47} THEN jsonString(t, j + 2, acc \o CharOf(e))
           ELSE IF e = 110 THEN jsonString(t, j + 2, acc \o "\n")
           ELSE IF e = 114 THEN jsonString(t, j + 2, acc \o "\r")
           ELSE IF e = 116 THEN jsonString(t, j + 2, acc \o "\t")
           ELSE IF e = 98 THEN jsonString(t, j + 2, acc \o CharOf(8))
           ELSE IF e = 102 THEN jsonString(t, j + 2, acc \o CharOf(12))
           ELSE IF /\ e = 117
                   /\ j + 5 <= Len(t)
                   /\ \A d \in 2..5 : IsHexCode(t[j + d])
                THEN jsonString(t, j + 6,
                       acc \o CharOf(4096 * HexValCode(t[j + 2]) + 256 * HexValCode(t[j + 3])
                                     + 16 * HexValCode(t[j + 4]) + HexValCode(t[j + 5])))
           ELSE JsonFail

\* The string value of a string literal read by jsonString.
jsonQuoted(r) == [ok |-> r.ok, v |-> Str(r.s), next |-> r.next]

\* A string or a literal at t[i]: [ok, v, next].
jsonScalar(t, i) ==
  LET lit(w) == i + Len(w) - 1 <= Len(t) /\ SubSeq(t, i, i + Len(w) - 1) = Codes(w)
  IN  IF i > Len(t) THEN [ok |-> FALSE, v |-> JUndefined, next |-> 0]
      ELSE IF t[i] = 34 THEN jsonQuoted(jsonString(t, i + 1, ""))
      ELSE IF lit("null") THEN [ok |-> TRUE, v |-> JNull, next |-> i + 4]
      ELSE IF lit("true") THEN [ok |-> TRUE, v |-> JTrue, next |-> i + 4]
      ELSE IF lit("false") THEN [ok |-> TRUE, v |-> JFalse, next |-> i + 5]
      ELSE [ok |-> FALSE, v |-> JUndefined, next |-> 0]

JsonNoMembers == [ok |-> FALSE, props |-> <<>>, next |-> 0]

RECURSIVE jsonMembers(_, _, _)
\* After a member: the closing brace at t[e], or a comma and more members.
jsonMore(t, props, val, e) ==
  IF ~val.ok \/ e > Len(t) THEN JsonNoMembers
  ELSE IF t[e] = 125 THEN [ok |-> TRUE, props |-> props, next |-> e + 1]
  ELSE IF t[e] = 44 THEN jsonMembers(t, SkipWs(t, e + 1), props)
  ELSE JsonNoMembers

\* The member of key key.s and value val.v, added to the members acc.
jsonMember(t, acc, key, val) ==
  IF ~val.ok THEN JsonNoMembers
  ELSE jsonMore(t, Append(acc, [key |-> key.s, value |-> val.v]), val, SkipWs(t, val.next))

\* After the key of a member: the colon at t[c] and the value.
jsonColon(t, acc, key, c) ==
  IF c > Len(t) \/ t[c] # 58 THEN JsonNoMembers
  ELSE jsonMember(t, acc, key, jsonScalar(t, SkipWs(t, c + 1)))

\* After the opening quote of the key of a member.
jsonKey(t, acc, key) ==
  IF ~key.ok THEN JsonNoMembers ELSE jsonColon(t, acc, key, SkipWs(t, key.next))

\* The members of an object from the key at t[i] to the closing brace:
\* [ok, props, next].
jsonMembers(t, i, acc) ==
  IF i > Len(t) \/ t[i] # 34 THEN JsonNoMembers
  ELSE jsonKey(t, acc, jsonString(t, i + 1, ""))

JsonThrown == [thrown |-> TRUE, k |-> "undefined", s |-> "", props |-> <<>>]

\* Whether only white space follows from t[next] on.
JsonDone(t, next) == SkipWs(t, next) = Len(t) + 1

\* The object whose members jsonMembers read.
jsonObject(t, r) ==
  IF r.ok /\ JsonDone(t, r.next)
  THEN [thrown |-> FALSE, k |-> "object", s |-> "", props |-> r.props]
  ELSE JsonThrown

\* The value of a text that is one string or literal.
jsonValue(t, r) ==
  IF r.ok /\ JsonDone(t, r.next)
  THEN [thrown |-> FALSE, k |-> r.v.k, s |-> r.v.s, props |-> <<>>]
  ELSE JsonThrown

\* The object whose opening brace is before t[j].
jsonBraces(t, j) ==
  IF j <= Len(t) /\ t[j] = 125
  THEN IF JsonDone(t, j + 1)
       THEN [thrown |-> FALSE, k |-> "object", s |-> "", props |-> <<>>]
       ELSE JsonThrown
  ELSE jsonObject(t, jsonMembers(t, j, <<>>))

\* The value that starts at t[i], the first character that is no white space.
jsonText(t, i) ==
  IF i > Len(t) THEN JsonThrown
  ELSE IF t[i] = 123 THEN jsonBraces(t, SkipWs(t, i + 1))
  ELSE jsonValue(t, jsonScalar(t, i))

\* JSON.parse of a text given as code points: [thrown, k, s, props], thrown
\* for a SyntaxError, k "object" with the properties in props, otherwise
\* the scalar [k, s].
JSONparse(t) == jsonText(t, SkipWs(t, 1))

\* encodeObject(obj), on the window.btoa branch (the receiver runs in the
\* cast device's browser).
encodeObject(obj) == btoa(unescape(encodeURIComponent(JSONstringify(obj))))

\* JSON.parse(decodeURIComponent(...)) of line 302, on what decodeURIComponent gave.
decodeText(d) == IF d.thrown THEN JsonThrown ELSE JSONparse(d.value)

\* decodeURIComponent(escape(m)) of line 302, on what window.atob gave.
decodeBinary(m) ==
  IF m.thrown THEN JsonThrown ELSE decodeText(decodeURIComponent(escape(m.value)))

\* decodeObject(str), on the window.atob branch: [thrown, k, s, props].
decodeObject(str) == decodeBinary(atob(str))

\* obj[key] of a decoded value: the last property of that name of an
\* object, undefined on a string or a boolean. (null throws: see PropThrows.)
Prop(obj, key) ==
  LET hits == {i \in 1..Len(obj.props) : obj.props[i].key = key}
  IN  IF obj.k # "object" \/ hits = {} THEN JUndefined
      ELSE obj.props[CHOOSE i \in hits : \A j \in hits : j <= i].value

\* Reading a property of null or undefined is a TypeError.
PropThrows(obj) == obj.k \in {"null", "undefined"}

(***************************************************************************)
(* manifestRewriter (lines 28-91) and langTag (lines 104-134).             *)
(* The object kv is the list of its properties, [key, value, quoted], in   *)
(* the order Object.entries walks them: the array-index keys ("0", "7",    *)
(* "12") first, ascending, then the other keys in insertion order.         *)
(***************************************************************************)
KeyChars == AlphaNum \cup {"_", "-"}

\* What \s matches, among the modelled characters.
Whitespace == {" ", "\t", "\n", "\r"}

\* What . does not match.
LineTerminators == {"\n", "\r"}

\* a < b, for canonical decimal numerals.
NumeralLess(a, b) ==
  \/ Len(a) < Len(b)
  \/ /\ Len(a) = Len(b)
     /\ \E i \in 1..Len(a) :
          /\ SubSeq(a, 1, i - 1) = SubSeq(b, 1, i - 1)
          /\ charCodeAt(Ch(a, i)) < charCodeAt(Ch(b, i))

\* A property key that is an array index: the canonical decimal form of an
\* integer below 2^32 - 1.
IsArrayIndex(key) ==
  /\ Len(key) >= 1
  /\ Chars(key) \subseteq Chars("0123456789")
  /\ (Len(key) > 1 => Ch(key, 1) # "0")
  /\ NumeralLess(key, "4294967295")

kvHas(kv, key) == \E i \in 1..Len(kv) : kv[i].key = key

kvGet(kv, key) == kv[CHOOSE i \in 1..Len(kv) : kv[i].key = key]

\* kv[key] = { value, quoted }
kvSet(kv, key, value, quoted) ==
  LET e == [key |-> key, value |-> value, quoted |-> quoted]
  IN  IF kvHas(kv, key)
      THEN [i \in 1..Len(kv) |-> IF kv[i].key = key THEN e ELSE kv[i]]
      ELSE IF IsArrayIndex(key)
      THEN LET n == Cardinality({i \in 1..Len(kv) :
                        IsArrayIndex(kv[i].key) /\ NumeralLess(kv[i].key, key)})
           IN  SubSeq(kv, 1, n) \o <<e>> \o SubSeq(kv, n + 1, Len(kv))
      ELSE Append(kv, e)

NoMatch == [ok |-> FALSE, key |-> "", value |-> "", rest |-> ""]

\* What is left of line from w on, after one comma if there is one: the
\* ,?(.*) of both patterns.
AfterComma(line, w) == SubSeq(line, IF Ch(line, w) = "," THEN w + 1 ELSE w, Len(line))

\* The match of the first pattern, its key ending at k, its closing quote at
\* q and the white space after it ending before w.
matchQuotedAt(line, k, q, w) ==
  IF /\ k >= 1
     /\ Ch(line, k + 1) = "="
     /\ Ch(line, k + 2) = "\""
     /\ q <= Len(line)
     /\ Chars(AfterComma(line, w)) \cap LineTerminators = {}
  THEN [ok |-> TRUE, key |-> SubSeq(line, 1, k),
        value |-> SubSeq(line, k + 3, q - 1), rest |-> AfterComma(line, w)]
  ELSE NoMatch

matchQuotedValue(line, k, q) == matchQuotedAt(line, k, q, IndexNotIn(line, q + 1, Whitespace))

matchQuotedKey(line, k) == matchQuotedValue(line, k, IndexIn(line, k + 3, {"\""}))

\* line.match(/^([A-Za-z0-9_-]+)="([^"]*)"\s*,?(.*)$/)
matchQuoted(line) == matchQuotedKey(line, IndexNotIn(line, 1, KeyChars) - 1)

\* The match of the second pattern, its key ending at k and its value
\* before e, the first comma or the end of the line.
matchBareAt(line, k, e) ==
  IF /\ k >= 1
     /\ Ch(line, k + 1) = "="
     /\ Chars(SubSeq(line, e + 1, Len(line))) \cap LineTerminators = {}
  THEN [ok |-> TRUE, key |-> SubSeq(line, 1, k),
        value |-> SubSeq(line, k + 2, e - 1), rest |-> SubSeq(line, e + 1, Len(line))]
  ELSE NoMatch

matchBareKey(line, k) == matchBareAt(line, k, IndexIn(line, k + 2, {","}))

\* line.match(/^([A-Za-z0-9_-]+)=([^,]*)\s*,?(.*)$/)
matchBare(line) == matchBareKey(line, IndexNotIn(line, 1, KeyChars) - 1)

\* A strict parser: any line that holds more than attributes has none.
splitNothing(line, kv) == [kv |-> kv, line |-> line]

RECURSIVE splitKeyValue(_, _)
\* The turn of the loop whose first match failed: the second match res
\* (lines 47-53).
splitBare(line, kv, res) ==
  IF ~res.ok THEN [kv |-> kv, line |-> line]
  ELSE splitKeyValue(res.rest, kvSet(kv, res.key, res.value, FALSE))

\* One turn of the loop: the first match q (lines 45-54).
splitQuoted(line, kv, q) ==
  IF q.ok THEN splitKeyValue(q.rest, kvSet(kv, q.key, q.value, TRUE))
  ELSE splitBare(line, kv, matchBare(line))

\* The loop "Split up into key/value" (lines 44-56): kv at its end, and what
\* is left of line when it stops.
splitKeyValue(line, kv) ==
  IF Len(line) = 0 THEN [kv |-> kv, line |-> line]
  ELSE splitQuoted(line, kv, matchQuoted(line))

\* kv[key].value, or the default of an attribute the line does not have.
ValueOr(kv, key, default) == IF kvHas(kv, key) THEN kvGet(kv, key).value ELSE default

\* state after state[key] = tagSeq + 1.
Counted(state, key, tagSeq) ==
  [x \in DOMAIN state \cup {key} |-> IF x = key THEN tagSeq + 1 ELSE state[x]]

\* A langTag that tells a first occurrence from a later one, and no more.
langTagOnce(state, kv) ==
  [thrown |-> FALSE,
   value |-> IF (ValueOr(kv, "GROUP-ID", "gid") \o "." \o ValueOr(kv, "LANGUAGE", "und"))
                  \in DOMAIN state
             THEN ValueOr(kv, "LANGUAGE", "und") \o "-XA"
             ELSE ValueOr(kv, "LANGUAGE", "und"),
   state |-> Counted(state, ValueOr(kv, "GROUP-ID", "gid") \o "." \o ValueOr(kv, "LANGUAGE", "und"),
                     0)]

\* The tag of the language lang, already seen tagSeq times under key
\* (lines 118-133).
langTagSeq(state, lang, key, tagSeq) ==
  IF tagSeq = 0 THEN [thrown |-> FALSE, value |-> lang, state |-> Counted(state, key, tagSeq)]
  \* "tagseq -= 25" reads the undeclared tagseq: a ReferenceError, before
  \* firstLetter = 81 and the clamp to 26 are reached.
  ELSE IF tagSeq > 26 THEN [thrown |-> TRUE, value |-> "", state |-> Counted(state, key, tagSeq)]
  ELSE [thrown |-> FALSE,
        value |-> lang \o "-" \o fromCharCode(88) \o fromCharCode(64 + tagSeq),
        state |-> Counted(state, key, tagSeq)]

\* The count kept under key (lines 110-116): 0 for a key not seen.
langTagKey(state, lang, key) ==
  langTagSeq(state, lang, key, IF key \in DOMAIN state THEN state[key] ELSE 0)

\* The key of the language lang in the group gid (line 108).
langTagOf(state, gid, lang) == langTagKey(state, lang, gid \o "." \o lang)

\* langTag(state, kv): [thrown, value, state]. state maps the keys seen to
\* their counts.
langTag(state, kv) ==
  langTagOf(state, ValueOr(kv, "GROUP-ID", "gid"), ValueOr(kv, "LANGUAGE", "und"))

\* An object stuffed after the language was made unique: it holds no
\* LANGUAGE of its own.
stuffedWithoutLanguage(kv) ==
  LET present == SelectSeq(<<"NAME", "FORCED", "CHANNELS">>, LAMBDA key : kvHas(kv, key))
  IN  [i \in 1..Len(present) |-> [key |-> present[i], value |-> kvGet(kv, present[i]).value]]

\* The object stuffed into CHARACTERISTICS (lines 64-67).
stuffedObject(kv) ==
  LET present == SelectSeq(<<"LANGUAGE", "NAME", "FORCED", "CHANNELS">>,
                           LAMBDA key : kvHas(kv, key))
  IN  [i \in 1..Len(present) |-> [key |-> present[i], value |-> kvGet(kv, present[i]).value]]

\* "Now rebuild the #EXT-X-MEDIA line" (lines 76-84).
rebuildLine(kv) ==
  "#EXT-X-MEDIA:" \o
  join([i \in 1..Len(kv) |->
          IF kv[i].quoted THEN kv[i].key \o "=\"" \o kv[i].value \o "\""
          ELSE kv[i].key \o "=" \o kv[i].value], ",")

\* The test of lines 59-61: a line of TYPE SUBTITLES or AUDIO.
IsRendition(kv) ==
  kvHas(kv, "TYPE") /\ kvGet(kv, "TYPE").value \in {"AUDIO", "SUBTITLES"}

\* kv after the object obj went into CHARACTERISTICS (lines 68-70).
Stuffed(kv, obj) ==
  kvSet(kv, "CHARACTERISTICS",
        join(Append(IF kvHas(kv, "CHARACTERISTICS")
                    THEN split(kvGet(kv, "CHARACTERISTICS").value, ",")
                    ELSE <<>>,
                    "xyzzy.obj." \o encodeObject(obj)), ","),
        TRUE)

\* A line the loop leaves alone, with the locals kv and line (as rest).
Skipped(text, state, kv, rest) ==
  [thrown |-> FALSE, line |-> text, state |-> state, modified |-> FALSE,
   kv |-> kv, rest |-> rest, obj |-> <<>>]

\* Lines 73-84 on the stuffed attributes kv1: the language made unique
\* (tag, what langTag gave) and the line rebuilt.
rewriteTagged(text, p, obj, kv1, tag) ==
  IF tag.thrown
  THEN [thrown |-> TRUE, line |-> text, state |-> tag.state,
        modified |-> FALSE, kv |-> p.kv, rest |-> p.line, obj |-> obj]
  ELSE [thrown |-> FALSE, line |-> rebuildLine(kvSet(kv1, "LANGUAGE", tag.value, TRUE)),
        state |-> tag.state, modified |-> TRUE, kv |-> p.kv, rest |-> p.line, obj |-> obj]

rewriteStuffed(text, state, p, obj, kv1) == rewriteTagged(text, p, obj, kv1, langTag(state, kv1))

rewriteObject(text, state, p, obj) == rewriteStuffed(text, state, p, obj, Stuffed(p.kv, obj))

\* Lines 58-84 on the parsed attributes p.kv.
rewriteParsed(text, state, p) ==
  IF ~IsRendition(p.kv) THEN Skipped(text, state, p.kv, p.line)
  ELSE rewriteObject(text, state, p, stuffedObject(p.kv))

\* One turn of the loop over the lines (lines 34-86) on lines[idx]:
\* [thrown, line, state, modified] and the locals kv, line (as rest), obj.
rewriteLine(text, state) ==
  IF ~startsWith(text, "#EXT-X-MEDIA:") THEN Skipped(text, state, <<>>, "")
  ELSE rewriteParsed(text, state, splitKeyValue(slice(text, 13), <<>>))

\* The locals of a turn of the loop, when it ends.
StepOf(r) ==
  [modified |-> r.modified, kv |-> r.kv, rest |-> r.rest, obj |-> r.obj, state |-> r.state]

RECURSIVE rewriteLoop(_, _, _, _)
\* The loop after the turn r on lines[idx].
rewriteNext(lines, idx, steps, r) ==
  IF r.thrown
  THEN [thrown |-> TRUE, lines |-> lines, state |-> r.state, steps |-> Append(steps, StepOf(r))]
  ELSE rewriteLoop([lines EXCEPT ![idx] = r.line], idx + 1, r.state, Append(steps, StepOf(r)))

\* The loop from idx on: the lines array, state and the per-line locals when
\* it ends or throws.
rewriteLoop(lines, idx, state, steps) ==
  IF idx > Len(lines)
  THEN [thrown |-> FALSE, lines |-> lines, state |-> state, steps |-> steps]
  ELSE rewriteNext(lines, idx, steps, rewriteLine(lines[idx], state))

\* What manifestRewriter returns when its loop ended as r (line 90).
Joined(r) ==
  [thrown |-> r.thrown,
   value |-> IF r.thrown THEN "" ELSE join(r.lines, "\n"),
   lines |-> r.lines,
   state |-> r.state,
   steps |-> r.steps]

\* manifestRewriter(m3u8): [thrown, value], value the returned text; and the
\* function's locals at its end: lines, state, and per line visited the
\* locals kv, line (rest), obj and state when its turn of the loop ends.
manifestRewriter(m3u8) == Joined(rewriteLoop(splitLines(m3u8), 1, <<>>, <<>>))

(***************************************************************************)
(* tracksUpdater (lines 137-147) and doTracksUpdate (lines 151-193).       *)
(* A track is [language, name, forced, channelCount, roles]: the scalar    *)
(* fields are JavaScript values [k, s], roles is [has, items] (has FALSE   *)
(* when the track has no roles property). A message is                     *)
(* [hasMedia, hasTracks, tracks].                                          *)
(***************************************************************************)
NoRoles == [has |-> FALSE, items |-> <<>>]

Roles(items) == [has |-> TRUE, items |-> items]

RemoveAt(q, i) == SubSeq(q, 1, i - 1) \o SubSeq(q, i + 1, Len(q))

\* Lines 167-171: t.language = obj.LANGUAGE, or null for a language that
\* starts with "und".
setLanguage(t, language) ==
  [t EXCEPT !.language = IF Truthy(language) THEN language
                         ELSE IF Truthy(t.language) /\ startsWith(t.language.s, "und")
                              THEN JNull
                         ELSE @]

\* Lines 172-174.
setName(t, name) == [t EXCEPT !.name = IF Truthy(name) THEN name ELSE @]

\* Lines 175-178.
setForced(t, forced) ==
  IF Truthy(forced)
  THEN [t EXCEPT !.roles.items = Append(@, "forced_subtitle"), !.forced = JTrue]
  ELSE t

\* Lines 179-181.
setChannels(t, channels) ==
  [t EXCEPT !.channelCount = IF Truthy(channels) THEN channels ELSE @]

\* Lines 185-187: delete t.roles when it is empty.
deleteEmptyRoles(t) == IF Len(t.roles.items) = 0 THEN [t EXCEPT !.roles = NoRoles] ELSE t

\* Line 184: t.roles.splice(i, 1).
spliceRole(t, i) == deleteEmptyRoles([t EXCEPT !.roles.items = RemoveAt(@, i)])

\* Lines 167-187 on the decoded object obj of the marker t.roles[i].
updateDecoded(t, i, obj) ==
  IF obj.thrown THEN [thrown |-> TRUE, t |-> t]
  \* obj.LANGUAGE of null
  ELSE IF PropThrows(obj) THEN [thrown |-> TRUE, t |-> t]
  \* t.language.startsWith of a truthy value that is no string
  ELSE IF ~Truthy(Prop(obj, "LANGUAGE")) /\ Truthy(t.language) /\ t.language.k # "string"
       THEN [thrown |-> TRUE, t |-> t]
  ELSE [thrown |-> FALSE,
        t |-> spliceRole(setChannels(setForced(setName(setLanguage(t, Prop(obj, "LANGUAGE")),
                                                       Prop(obj, "NAME")),
                                               Prop(obj, "FORCED")),
                                     Prop(obj, "CHANNELS")),
                         i)]

\* Lines 162-166: the first role that is a marker, i, decoded.
updateMarked(t, i) == updateDecoded(t, i, decodeObject(slice(t.roles.items[i], 10)))

\* The body of the loop over the tracks (lines 156-189) on the track t:
\* [thrown, t].
updateTrack(t) ==
  IF ~t.roles.has THEN [thrown |-> FALSE, t |-> t]
  ELSE IF \A i \in 1..Len(t.roles.items) : ~startsWith(t.roles.items[i], "xyzzy.obj.")
       THEN [thrown |-> FALSE, t |-> t]
  ELSE updateMarked(t, Min({i \in 1..Len(t.roles.items) :
                             startsWith(t.roles.items[i], "xyzzy.obj.")}))

RECURSIVE doTracksUpdate(_, _)
\* The loop after its body ran on tracks[idx] and gave r.
doTracksNext(tracks, idx, r) ==
  IF r.thrown THEN [thrown |-> TRUE, tracks |-> tracks]
  ELSE doTracksUpdate([tracks EXCEPT ![idx] = r.t], idx + 1)

\* doTracksUpdate(resp), from track idx on: [thrown, tracks]. The tracks are
\* updated in place, so the ones before a throw stay updated.
doTracksUpdate(tracks, idx) ==
  IF idx > Len(tracks) THEN [thrown |-> FALSE, tracks |-> tracks]
  ELSE doTracksNext(tracks, idx, updateTrack(tracks[idx]))

\* The message after doTracksUpdate ended as r, in the try or in the catch
\* (lines 141-146).
Updated(msg, r) ==
  [raised |-> FALSE, caught |-> r.thrown, resp |-> [msg EXCEPT !.tracks = r.tracks]]

\* tracksUpdater(resp): [raised, caught, resp]. raised is whether an
\* exception leaves the function (never: the catch has no rethrow), caught
\* whether the catch block ran.
tracksUpdater(msg) ==
  IF ~msg.hasMedia \/ ~msg.hasTracks
  THEN [raised |-> FALSE, caught |-> FALSE, resp |-> msg]
  ELSE Updated(msg, doTracksUpdate(msg.tracks, 1))

(***************************************************************************)
(* The handlers start() registers (lines 208-284): the shaka response      *)
(* filter that rewrites manifests, and the MEDIA_STATUS interceptor.       *)
(* shaka.util.StringUtils.fromUTF8 / toUTF8 are the identity on the        *)
(* modelled (ASCII) texts, so response.data is kept as text.               *)
(***************************************************************************)
NoCall == [called |-> FALSE, thrown |-> FALSE, value |-> "", lines |-> <<>>,
           state |-> <<>>, steps |-> <<>>]

\* The try of lines 240-246 around the manifestRewriter call c:
\* try { response.data = ... } catch(e) { console.log(...) }
Filtered(r, c) ==
  [response |-> IF c.thrown THEN r ELSE [r EXCEPT !.data = c.value],
   call |-> [called |-> TRUE, thrown |-> c.thrown, value |-> c.value,
             lines |-> c.lines, state |-> c.state, steps |-> c.steps]]

\* The response filter (lines 234-247) on the response r: the response it
\* leaves, and the manifestRewriter call it made, if any.
responseFilter(r) ==
  IF \/ r.type # "MANIFEST"
     \/ (~endsWith(r.uri, "master.m3u8") /\ ~endsWith(r.uri, "main.m3u8"))
     \/ (r.status # 0 /\ r.status \div 100 # 2)
  THEN [response |-> r, call |-> NoCall]
  ELSE Filtered(r, manifestRewriter(r.data))

(***************************************************************************)
(* The inputs. A manifest is written down as a list of line descriptions:  *)
(* [media, text] for a line given as text, and for an #EXT-X-MEDIA line    *)
(* [media, attrs, tail], attrs the attributes [key, value, quoted] in      *)
(* order and tail a text after them that is no attribute.                  *)
(***************************************************************************)
At(key, value, quoted) == [key |-> key, value |-> value, quoted |-> quoted]

Q(key, value) == At(key, value, TRUE)

B(key, value) == At(key, value, FALSE)

Media(attrs, tail) == [media |-> TRUE, attrs |-> attrs, tail |-> tail, text |-> ""]

Plain(text) == [media |-> FALSE, attrs |-> <<>>, tail |-> "", text |-> text]

AttrText(a) ==
  IF a.quoted THEN a.key \o "=\"" \o a.value \o "\"" ELSE a.key \o "=" \o a.value

\* The text of a described line.
LineText(d) ==
  IF ~d.media THEN d.text
  ELSE "#EXT-X-MEDIA:"
       \o join([i \in 1..Len(d.attrs) |-> AttrText(d.attrs[i])]
               \o (IF d.tail = "" THEN <<>> ELSE <<d.tail>>), ",")

\* Rendition lines, after the sample manifest of testIt (lines 306-337).
EnglishStereo == Media(<<B("TYPE", "AUDIO"), Q("GROUP-ID", "g"), Q("LANGUAGE", "en"),
                         Q("NAME", "E")>>, "")

EnglishSurround == Media(<<B("TYPE", "AUDIO"), Q("GROUP-ID", "g"), Q("CHANNELS", "6"),
                           Q("NAME", "E 5.1"), Q("LANGUAGE", "en"), B("DEFAULT", "NO")>>, "")

GermanForced == Media(<<B("TYPE", "SUBTITLES"), Q("GROUP-ID", "g"), Q("LANGUAGE", "de"),
                        B("FORCED", "YES"), Q("CHARACTERISTICS", "public.a,public.b"),
                        Q("URI", "s.m3u8")>>, "")

BareType == Media(<<B("TYPE", "AUDIO")>>, "")

EmptyValues == Media(<<B("TYPE", "SUBTITLES"), Q("LANGUAGE", ""), Q("NAME", ""),
                       Q("CHARACTERISTICS", "")>>, "")

Video == Media(<<B("TYPE", "VIDEO"), Q("GROUP-ID", "g"), Q("LANGUAGE", "en")>>, "")

DottedGroup == Media(<<B("TYPE", "AUDIO"), Q("GROUP-ID", "a.b"), Q("LANGUAGE", "c")>>, "")

DottedLanguage == Media(<<B("TYPE", "AUDIO"), Q("GROUP-ID", "a"), Q("LANGUAGE", "b.c")>>, "")

NumericKeys == Media(<<B("TYPE", "AUDIO"), B("7", "x"), Q("LANGUAGE", "en"), B("2", "y")>>, "")

RepeatedKey == Media(<<B("TYPE", "AUDIO"), Q("NAME", "a"), Q("LANGUAGE", "en"),
                       B("NAME", "b c")>>, "")

BadTail == Media(<<B("TYPE", "AUDIO"), Q("LANGUAGE", "en")>>, "junk;URI=\"x\"")

BadHead == Media(<<>>, "junk,TYPE=AUDIO")

MediaLines == {EnglishStereo, EnglishSurround, GermanForced, BareType, EmptyValues,
               Video, DottedGroup, DottedLanguage, NumericKeys, RepeatedKey, BadTail,
               BadHead}

PlainLines == {Plain("#EXTM3U"), Plain("#ext-x-media:TYPE=AUDIO")}

\* The longest manifest built from every kind of line.
MaxLines == 2

\* The most copies of one line in a manifest: one more than langTag has
\* tags for.
MaxCopies == 28

\* The tags langTag has for a (GROUP-ID, LANGUAGE) pair: the language
\* itself, then -XA to -XZ (tagSeq 1 to 26, line 125).
TagsPerPair == 27

Catalogue == MediaLines \cup PlainLines

ShortDocs == UNION {[1..n -> Catalogue] : n \in 0..MaxLines}

RepeatedPairs == {<<EnglishStereo, EnglishSurround>>, <<EnglishStereo, GermanForced>>,
                  <<BareType, EmptyValues>>}

\* n copies of a line, and one other line second or last.
LongDocs == {[i \in 1..(n + 1) |-> IF i = (IF last THEN n + 1 ELSE 2) THEN ab[2] ELSE ab[1]] :
               n \in {TagsPerPair, MaxCopies}, last \in BOOLEAN, ab \in RepeatedPairs}

DocText(d, eol) == join([i \in 1..Len(d) |-> LineText(d[i])], eol)

Request(d, eol, type, uri, status) ==
  [doc |-> d, eol |-> eol,
   r |-> [type |-> type, uri |-> uri, status |-> status, data |-> DocText(d, eol)]]

\* The responses the filter is given: every manifest as a successful
\* master.m3u8 response, and a few manifests in every other way.
Requests ==
  {Request(d, "\n", "MANIFEST", "http://h/v/master.m3u8", 200) : d \in ShortDocs \cup LongDocs}
  \cup {Request(d, eol, type, uri, status) :
          d \in {<<EnglishStereo>>, <<Plain("#EXTM3U"), EnglishStereo, EnglishSurround>>},
          eol \in {"\n", "\r\n"},
          type \in {"MANIFEST", "SEGMENT"},
          uri \in {"http://h/v/main.m3u8", "http://h/v/media.1.m3u8"},
          status \in {0, 206, 404}}

(***************************************************************************)
(* The MEDIA_STATUS messages. The player built into the firmware passes    *)
(* on only language and roles (lines 13-20): a track of a loaded manifest  *)
(* has the LANGUAGE of its rendition line as language and the entries of   *)
(* its CHARACTERISTICS as roles.                                           *)
(***************************************************************************)
Track(language, roles) ==
  [language |-> language, name |-> JUndefined, forced |-> JUndefined,
   channelCount |-> JUndefined, roles |-> roles]

\* The track of a rendition of attributes kv.
TrackOf(kv) ==
  IF IsRendition(kv)
  THEN <<Track(IF kvHas(kv, "LANGUAGE") THEN Str(kvGet(kv, "LANGUAGE").value) ELSE JUndefined,
               IF kvHas(kv, "CHARACTERISTICS")
               THEN Roles(split(kvGet(kv, "CHARACTERISTICS").value, ","))
               ELSE NoRoles)>>
  ELSE <<>>

\* The track of a manifest line, if it gives one.
LineTracks(line) ==
  IF startsWith(line, "#EXT-X-MEDIA:") THEN TrackOf(splitKeyValue(slice(line, 13), <<>>).kv)
  ELSE <<>>

PlayerTracks(lines) ==
  Flatten([i \in 1..Len(lines) |-> LineTracks(lines[i])], 1, Len(lines), <<>>)

Message(tracks) == [hasMedia |-> TRUE, hasTracks |-> TRUE, tracks |-> tracks]

PlayerMessage(data) == Message(PlayerTracks(splitLines(data)))

Marker(obj) == "xyzzy.obj." \o encodeObject(obj)

P(key, value) == [key |-> key, value |-> value]

\* Tracks of media that did not come through manifestRewriter: markers of
\* every shape, among them "!!" (no base64), eyJ ('{"', no JSON),
\* bnVsbA== (null) and eyJGT1JDRUQiOnRydWV9 ({"FORCED":true}).
OtherTracks ==
  { Track(Str("en-XA"), Roles(<<"public.a", Marker(<<P("LANGUAGE", "en"), P("FORCED", "YES")>>)>>)),
    Track(Str("und"), Roles(<<Marker(<<>>)>>)),
    Track(Str("und-XA"), Roles(<<Marker(<<P("NAME", "E"), P("CHANNELS", "6")>>), "public.b",
                                 Marker(<<P("LANGUAGE", "en")>>)>>)),
    Track(Str("fr"), Roles(<<"public.a">>)),
    Track(Str("fr"), NoRoles),
    Track(JNull, Roles(<<>>)),
    Track(Str("de"), Roles(<<"xyzzy.obj.!!">>)),
    Track(Str("de"), Roles(<<"public.a", "xyzzy.obj.bnVsbA==">>)),
    Track(Str("en-XB"), Roles(<<"xyzzy.obj.eyJ", Marker(<<P("LANGUAGE", "en")>>)>>)),
    Track(Str("und"), Roles(<<Marker(<<P("LANGUAGE", ""), P("NAME", ""), P("FORCED", ""),
                                       P("CHANNELS", "")>>)>>)),
    Track(JUndefined, Roles(<<"xyzzy.obj.eyJGT1JDRUQiOnRydWV9">>)) }

\* The most tracks of such a message.
MaxTracks == 2

OtherMessages ==
  {Message(tracks) : tracks \in UNION {[1..n -> OtherTracks] : n \in 0..MaxTracks}}
  \cup {[hasMedia |-> FALSE, hasTracks |-> FALSE, tracks |-> <<>>],
        [hasMedia |-> TRUE, hasTracks |-> FALSE, tracks |-> <<>>]}

NoMessage == [hasMedia |-> FALSE, hasTracks |-> FALSE, tracks |-> <<>>]

NoResponse == [type |-> "", uri |-> "", status |-> 0, data |-> ""]

Init ==
  /\ phase = "ready"
  /\ doc = <<>>
  /\ request = NoResponse
  /\ response = NoResponse
  /\ call = NoCall
  /\ respIn = NoMessage
  /\ resp = NoMessage
  /\ caught = FALSE

\* The player fetched a manifest (or something else) and runs the response
\* filter on the response.
ResponseFilter ==
  /\ phase = "ready"
  /\ \E q \in Requests :
       \E f \in {responseFilter(q.r)} :
         /\ response' = f.response
         /\ call' = f.call
         /\ doc' = q.doc
         /\ request' = q.r
  /\ phase' = "loaded"
  /\ UNCHANGED <<respIn, resp, caught>>

\* The receiver answers a sender with a MEDIA_STATUS message, which goes
\* through tracksUpdater: of the loaded manifest once one is loaded, of
\* other media before.
MediaStatus ==
  /\ phase \in {"ready", "loaded"}
  /\ \E msg \in (IF phase = "ready" THEN OtherMessages
                 ELSE {PlayerMessage(response.data)}) :
       \E u \in {tracksUpdater(msg)} :
         /\ resp' = u.resp
         /\ caught' = u.caught
         /\ respIn' = msg
  /\ phase' = "reported"
  /\ UNCHANGED <<doc, request, response, call>>

Next == ResponseFilter \/ MediaStatus

Spec == Init /\ [][Next]_vars

(***************************************************************************)
(* What the properties speak of. The manifest the response filter was      *)
(* given is doc, as it was written down; what manifestRewriter did with it *)
(* is call; the status message tracksUpdater was given is respIn, the one  *)
(* it returned is resp.                                                    *)
(***************************************************************************)
\* The lines of the manifest: the empty text is one empty line.
Lines == IF doc = <<>> THEN <<Plain("")>> ELSE doc

Has(d, key) == \E i \in 1..Len(d.attrs) : d.attrs[i].key = key

\* The last attribute of that name on the line.
Last(d, key) ==
  d.attrs[CHOOSE i \in 1..Len(d.attrs) :
            /\ d.attrs[i].key = key
            /\ \A j \in (i + 1)..Len(d.attrs) : d.attrs[j].key # key]

\* An AUDIO or SUBTITLES #EXT-X-MEDIA line.
Rendition(d) == d.media /\ Has(d, "TYPE") /\ Last(d, "TYPE").value \in {"AUDIO", "SUBTITLES"}

Renditions == {i \in 1..Len(Lines) : Rendition(Lines[i])}

\* The (GROUP-ID, LANGUAGE) pair of a line; <<>> for an attribute it lacks.
PairOf(d) ==
  <<IF Has(d, "GROUP-ID") THEN <<Last(d, "GROUP-ID").value>> ELSE <<>>,
    IF Has(d, "LANGUAGE") THEN <<Last(d, "LANGUAGE").value>> ELSE <<>>>>

Occurrences(p) == {i \in Renditions : PairOf(Lines[i]) = p}

Pairs == {PairOf(Lines[i]) : i \in Renditions}

\* The language langTag starts from.
LanguageOf(d) == IF Has(d, "LANGUAGE") THEN Last(d, "LANGUAGE").value ELSE "und"

\* manifestRewriter was called and rewrote line i.
Rewritten(i) == call.called /\ i <= Len(call.steps) /\ call.steps[i].modified

Returned == call.called /\ ~call.thrown

\* The attributes of line i as manifestRewriter left it.
OutAttrs(i) == splitKeyValue(slice(call.lines[i], 13), <<>>).kv

OutLanguage(i) == kvGet(OutAttrs(i), "LANGUAGE").value

OutCharacteristics(i) == kvGet(OutAttrs(i), "CHARACTERISTICS").value

Letter(n) == SubSeq("ABCDEFGHIJKLMNOPQRSTUVWXYZ", n, n)

\* The line with its attributes in the order their keys first appeared,
\* each with its last value, LANGUAGE and CHARACTERISTICS quoted with the
\* given values, at their place or else appended.
Emitted(d, language, characteristics) ==
  LET firsts == SelectSeq([i \in 1..Len(d.attrs) |-> i],
                          LAMBDA i : \A j \in 1..(i - 1) : d.attrs[j].key # d.attrs[i].key)
      attr(key) == IF key = "LANGUAGE" THEN Q(key, language)
                   ELSE IF key = "CHARACTERISTICS" THEN Q(key, characteristics)
                   ELSE Last(d, key)
      kept == [n \in 1..Len(firsts) |-> attr(d.attrs[firsts[n]].key)]
      all == kept
             \o (IF Has(d, "CHARACTERISTICS") THEN <<>>
                 ELSE <<Q("CHARACTERISTICS", characteristics)>>)
             \o (IF Has(d, "LANGUAGE") THEN <<>> ELSE <<Q("LANGUAGE", language)>>)
  IN  "#EXT-X-MEDIA:" \o join([n \in 1..Len(all) |-> AttrText(all[n])], ",")

Markers(t) == {i \in 1..Len(t.roles.items) : startsWith(t.roles.items[i], "xyzzy.obj.")}

HasMarker(t) == t.roles.has /\ Markers(t) # {}

\* What the first marker entry of the track decodes to.
Decoded(t) == decodeObject(slice(t.roles.items[Min(Markers(t))], 10))

Decodes(t) == HasMarker(t) /\ ~Decoded(t).thrown /\ Decoded(t).k = "object"

FailsToDecode(t) == HasMarker(t) /\ Decoded(t).thrown

Carried(obj, key) == \E n \in 1..Len(obj.props) : obj.props[n].key = key

\* C1: within one manifestRewriter call, the LANGUAGE values given to the
\* rendition lines of a (GROUP-ID, LANGUAGE) pair that occurs on at most 27
\* lines are pairwise distinct, whatever rendition lines lie between them.
TagsDistinct ==
  \A p \in Pairs :
    Cardinality(Occurrences(p)) <= TagsPerPair =>
      \A i, j \in Occurrences(p) :
        (i < j /\ Rewritten(i) /\ Rewritten(j)) => OutLanguage(i) # OutLanguage(j)

\* A pair on exactly 27 lines, all rewritten, with another rendition among them.
TagsDistinctWitness ==
  \E p \in Pairs :
    /\ Cardinality(Occurrences(p)) = TagsPerPair
    /\ \A i \in Occurrences(p) : Rewritten(i)
    /\ \E i, k \in Occurrences(p) : \E j \in Renditions \ Occurrences(p) :
         i < j /\ j < k /\ Rewritten(j)

\* C2: langTag counts per (GROUP-ID, LANGUAGE) pair only: the first line of
\* a pair keeps its language, the k-th (2 <= k <= 27) gets the language,
\* -X and the (k-1)-th letter, whatever lines of other pairs precede it.
CounterPerPair ==
  \A i \in Renditions :
    Rewritten(i) =>
      LET d == Lines[i]
          k == Cardinality({j \in Occurrences(PairOf(d)) : j <= i})
      IN  /\ k = 1 => OutLanguage(i) = LanguageOf(d)
          /\ k \in 2..TagsPerPair => OutLanguage(i) = LanguageOf(d) \o "-X" \o Letter(k - 1)

\* C3: the CHARACTERISTICS of a rewritten line is its original value, if it
\* had one, followed by one entry xyzzy.obj.<token>, and the token decodes
\* to an object of exactly the LANGUAGE, NAME, FORCED and CHANNELS the line
\* had, with the values it had: its LANGUAGE is the one before the rewrite.
MarkerCarriesOriginal ==
  \A i \in Renditions :
    Rewritten(i) =>
      LET d == Lines[i]
          ch == OutCharacteristics(i)
          head == (IF Has(d, "CHARACTERISTICS")
                   THEN Last(d, "CHARACTERISTICS").value \o "," ELSE "") \o "xyzzy.obj."
          token == slice(ch, Len(head))
          obj == decodeObject(token)
          present == {key \in {"LANGUAGE", "NAME", "FORCED", "CHANNELS"} : Has(d, key)}
      IN  /\ kvHas(OutAttrs(i), "CHARACTERISTICS")
          /\ startsWith(ch, head)
          /\ "," \notin Chars(token)
          /\ ~obj.thrown
          /\ obj.k = "object"
          /\ {obj.props[n].key : n \in 1..Len(obj.props)} = present
          /\ Len(obj.props) = Cardinality(present)
          /\ \A key \in present : Prop(obj, key) = Str(Last(d, key).value)

\* A second line of its pair, renamed, that had CHARACTERISTICS and three of
\* the four attributes.
MarkerCarriesOriginalWitness ==
  \E i \in Renditions :
    /\ Rewritten(i)
    /\ Has(Lines[i], "CHARACTERISTICS")
    /\ Has(Lines[i], "FORCED")
    /\ OutLanguage(i) = Last(Lines[i], "LANGUAGE").value \o "-XA"
    /\ Carried(Decoded(Track(JNull, Roles(split(OutCharacteristics(i), ",")))), "LANGUAGE")

\* C4: manifestRewriter returns as many lines as it was given, in their
\* order; a line that is no #EXT-X-MEDIA line, or has no TYPE or a TYPE
\* other than AUDIO and SUBTITLES, is returned as it was and leaves the
\* counters of the pairs as they were.
LinesKept ==
  Returned =>
    LET out == split(call.value, "\n")
    IN  /\ Len(out) = Len(Lines)
        /\ out = call.lines
        /\ \A i \in Renditions : startsWith(out[i], "#EXT-X-MEDIA:") /\ Rewritten(i)
        /\ \A i \in (1..Len(Lines)) \ Renditions :
             /\ out[i] = LineText(Lines[i])
             /\ call.steps[i].state = (IF i = 1 THEN <<>> ELSE call.steps[i - 1].state)

\* A manifest given with \r\n line ends; and an #EXT-X-MEDIA line of
\* another TYPE before a rendition of its group and language.
LinesKeptWitness ==
  /\ Returned
  /\ \/ request.data # DocText(doc, "\n")
     \/ \E i \in (1..Len(Lines)) \ Renditions : \E j \in Renditions :
          /\ i < j
          /\ Lines[i].media
          /\ PairOf(Lines[i]) = PairOf(Lines[j])
          /\ OutLanguage(j) = LanguageOf(Lines[j])

\* C5: a track whose first marker entry decodes to an object is left with
\* the language the object carries (cleared if it carries none and the
\* language starts with und, else as it was), name and channelCount
\* overwritten iff NAME and CHANNELS are carried, forced true and
\* forced_subtitle appended iff FORCED is carried, the first marker entry
\* removed and every other entry kept, and no roles rather than empty ones.
TrackAnnotated ==
  phase = "reported" =>
    \A n \in 1..Len(respIn.tracks) :
      LET t == respIn.tracks[n]
          u == resp.tracks[n]
          obj == Decoded(t)
          items == RemoveAt(t.roles.items, Min(Markers(t)))
                   \o (IF Carried(obj, "FORCED") THEN <<"forced_subtitle">> ELSE <<>>)
      IN  Decodes(t) =>
            /\ u.language = IF Carried(obj, "LANGUAGE") THEN Prop(obj, "LANGUAGE")
                            ELSE IF t.language.k = "string" /\ startsWith(t.language.s, "und")
                                 THEN JNull
                            ELSE t.language
            /\ u.name = IF Carried(obj, "NAME") THEN Prop(obj, "NAME") ELSE t.name
            /\ u.channelCount = IF Carried(obj, "CHANNELS") THEN Prop(obj, "CHANNELS")
                                ELSE t.channelCount
            /\ u.forced = IF Carried(obj, "FORCED") THEN JTrue ELSE t.forced
            /\ u.roles = IF items = <<>> THEN NoRoles ELSE Roles(items)

\* C6: a manifest with a pair on more than 27 lines is still rewritten:
\* manifestRewriter raises no error and the response holds the rewritten
\* text.
OverflowTolerated ==
  (call.called /\ \E p \in Pairs : Cardinality(Occurrences(p)) > TagsPerPair) =>
    /\ ~call.thrown
    /\ response.data = call.value
    /\ \A i \in Renditions : Rewritten(i)

\* C7: a track whose first marker entry fails to decode is left as it was,
\* and every other track of the message whose marker decodes, before or
\* after it, is annotated and has its marker removed.
FailureConfined ==
  phase = "reported" =>
    \A n \in 1..Len(respIn.tracks) :
      FailsToDecode(respIn.tracks[n]) =>
        /\ resp.tracks[n] = respIn.tracks[n]
        /\ \A m \in (1..Len(respIn.tracks)) \ {n} :
             Decodes(respIn.tracks[m]) =>
               /\ resp.tracks[m] # respIn.tracks[m]
               /\ Cardinality(Markers(resp.tracks[m]))
                    = Cardinality(Markers(respIn.tracks[m])) - 1

\* C8, as the code has it: an #EXT-X-MEDIA line whose attributes end in a
\* text that is no attribute is returned as it was only if the attributes
\* before that text hold no TYPE of AUDIO or SUBTITLES; else it is rewritten
\* from the attributes before the text, and the text is dropped. Every
\* other rendition line of the manifest is rewritten.
TailDropped ==
  Returned =>
    \A i \in 1..Len(Lines) :
      (Lines[i].media /\ Lines[i].tail # "") =>
        /\ IF Rendition(Lines[i])
           THEN /\ Rewritten(i)
                /\ call.lines[i] = Emitted(Lines[i], OutLanguage(i), OutCharacteristics(i))
           ELSE call.lines[i] = LineText(Lines[i])
        /\ \A j \in Renditions : Rewritten(j)

\* C8, as the specification has it: such a line is returned as it was.
TailPassedThrough ==
  Returned =>
    \A i \in 1..Len(Lines) :
      (Lines[i].media /\ Lines[i].tail # "") =>
        /\ call.lines[i] = LineText(Lines[i])
        /\ \A j \in Renditions \ {i} : Rewritten(j)

\* A rendition line that lost its tail, next to a line that kept it.
TailDroppedWitness ==
  /\ Returned
  /\ \E i, j \in 1..Len(Lines) :
       /\ Lines[i].tail # ""
       /\ Rendition(Lines[i])
       /\ call.lines[i] # LineText(Lines[i])
       /\ Lines[j].tail # ""
       /\ ~Rendition(Lines[j])

\* C9: a rewritten line has its attributes in the order their keys first
\* appeared, a repeated key with its last value; LANGUAGE and
\* CHARACTERISTICS stay where they were or are appended; every other
\* attribute keeps its value and its quotes.
OrderKept ==
  \A i \in Renditions :
    Rewritten(i) =>
      call.lines[i] = Emitted(Lines[i], OutLanguage(i), OutCharacteristics(i))

\* C10: a track built from a rewritten rendition line (language its
\* LANGUAGE, roles its CHARACTERISTICS split at the commas) has, after
\* tracksUpdater, the LANGUAGE the line had before, or none if it had none.
LanguageRestored ==
  (Returned /\ phase = "reported") =>
    LET rend == SelectSeq([i \in 1..Len(Lines) |-> i], LAMBDA i : i \in Renditions)
    IN  /\ Len(resp.tracks) = Len(rend)
        /\ \A n \in 1..Len(rend) :
             LET d == Lines[rend[n]]
             IN  IF Has(d, "LANGUAGE")
                 THEN resp.tracks[n].language = Str(Last(d, "LANGUAGE").value)
                 ELSE resp.tracks[n].language \in {JNull, JUndefined}
====
